---- MODULE Spec2Model ----
(***************************************************************************)
(* NGramLanguageModel (src/src/model.py): an n-gram language model with    *)
(* Laplace smoothing.  The model object holds vocabulary_size,             *)
(* context_size and counter (a collections.Counter keyed by tuples of      *)
(* tokens).  fit rebuilds the counter, __call__ returns a closure          *)
(* (log_probability_distribution) and the closure returns                  *)
(* math.log(numerator / denominator).                                      *)
(*                                                                         *)
(* A float returned by math.log is represented by the exact ratio whose    *)
(* logarithm it is: the pair numerator, denominator, together with the     *)
(* exception math.log or the division raises when the ratio has no         *)
(* logarithm.                                                              *)
(***************************************************************************)
EXTENDS Integers, Sequences, FiniteSets, TLC

VARIABLES vocabulary_size, context_size, counter,
          dist, ret, op, error,
          fits, trained, asked, snapshot, stale

\* vocabulary_size, context_size, counter: the attributes of the model object
\* dist    : the closure the last successful __call__ returned, retained
\* ret     : what the last call returned (None, a closure or a float)
\* op      : the last call made; error: the exception it raised, or "none"
\* fits    : history, the number of fit calls so far (2 stands for two or more)
\* trained : history, the argument of the last fit call
\* asked   : history, the argument of the __call__ that returned dist
\* snapshot: history, the ratio dist gave each token when it was returned
\* stale   : history, fit has been called since dist was returned
vars == <<vocabulary_size, context_size, counter, dist, ret, op, error,
          fits, trained, asked, snapshot, stale>>

\* ---------------------------------------------------------------- bounds
MaxVocab == 2
MaxContext == 1
MaxLen == 2
MaxQuery == 2

\* --------------------------------------------------------------- examples
\* 'the quick brown fox jumps over the lazy dog.' as a sequence of characters
DocString ==
  <<"t","h","e"," ","q","u","i","c","k"," ","b","r","o","w","n"," ",
    "f","o","x"," ","j","u","m","p","s"," ","o","v","e","r"," ",
    "t","h","e"," ","l","a","z","y"," ","d","o","g",".">>

\* the example of the class docstring: model('the quick brown')('f')
DocExample ==
  [vocabulary_size |-> Cardinality({DocString[i] : i \in DOMAIN DocString}),
   context_size |-> 2,
   fit |-> DocString,
   query |-> SubSeq(DocString, 1, 15),
   token |-> "f"]

\* the 9 characters of "abcabcabc": query(["a"])("b")
AbcExample ==
  [vocabulary_size |-> 3,
   context_size |-> 1,
   fit |-> <<"a","b","c","a","b","c","a","b","c">>,
   query |-> <<"a">>,
   token |-> "b"]

Examples == {DocExample, AbcExample}

\* the examples written for a model of this configuration
ExamplesFor(v, cs) ==
  {e \in Examples : e.vocabulary_size = v /\ e.context_size = cs}

\* ----------------------------------------------------------------- inputs
None == [kind |-> "None"]

Alphabet ==
  <<"a","b","c","d","e","f","g","h","i","j","k","l","m","n","o","p","q",
    "r","s","t","u","v","w","x","y","z"," ",".">>

\* a vocabulary of exactly n distinct tokens, 0 <= n <= Len(Alphabet)
Vocabulary(n) ==
  {Alphabet[i] : i \in 1..(IF n < Len(Alphabet) THEN n ELSE Len(Alphabet))}

SmallTokens == {"a", "b"}

RECURSIVE SeqsUpTo(_, _)
SeqsUpTo(S, n) ==
  IF n = 0 THEN {<<>>}
  ELSE LET shorter == SeqsUpTo(S, n - 1)
       IN  shorter \cup {Append(s, x) : s \in shorter, x \in S}

\* the constructor takes any two integers
Configurations ==
  ((-1..MaxVocab) \X (-1..MaxContext))
    \cup {<<e.vocabulary_size, e.context_size>> : e \in Examples}

FitInputs(v, cs) ==
  SeqsUpTo(SmallTokens, MaxLen) \cup {e.fit : e \in ExamplesFor(v, cs)}

QueryInputs(v, cs) ==
  SeqsUpTo(SmallTokens, MaxQuery) \cup {e.query : e \in ExamplesFor(v, cs)}

EvalInputs(v, cs) ==
  SmallTokens \cup {e.token : e \in ExamplesFor(v, cs)}

\* ------------------------------------------------------- collections.Counter
\* Counter(): no keys
EmptyCounter == [g \in {} |-> 0]

\* Counter.get(key, default)
get(c, key, default) == IF key \in DOMAIN c THEN c[key] ELSE default

\* a fit that forgets to clear: the counts of earlier calls stay
clear_keep(c) == c

\* Counter.clear()
clear(c) == EmptyCounter

\* Counter.update(iterable): every element of the iterable counts one more
update(c, grams) ==
  [g \in DOMAIN c \cup {grams[i] : i \in DOMAIN grams} |->
     get(c, g, 0) + Cardinality({i \in DOMAIN grams : grams[i] = g})]

\* nltk.util.ngrams(sequence, n) without padding: the windows of length n,
\* stride 1, that lie inside the sequence, left to right
ngrams(sequence, n) ==
  [i \in 1..(Len(sequence) - n + 1) |-> SubSeq(sequence, i, i + n - 1)]

\* Python's sequence[start:]
SliceFrom(sequence, start) ==
  LET len == Len(sequence)
      from == IF start < 0 THEN (IF len + start > 0 THEN len + start ELSE 0)
                           ELSE (IF start < len THEN start ELSE len)
  IN  SubSeq(sequence, from + 1, len)

\* ------------------------------------------------------ NGramLanguageModel
\* __init__(vocabulary_size, context_size)
init(v, c) ==
  [error |-> "none", vocabulary_size |-> v, context_size |-> c,
   counter |-> EmptyCounter]

\* range(1, context_size + 1): the highest order is left out
LastOrder_short(cs) == cs

\* range(1, context_size + 2): the last order fit counts
LastOrder(cs) == cs + 1

\* the loop of fit from order n on
RECURSIVE fitFrom(_, _, _, _)
fitFrom(c, sequence, n, last) ==
  IF n > last THEN c
  ELSE fitFrom(update(c, ngrams(sequence, n)), sequence, n + 1, last)

\* fit(sequence): the counter it leaves
fit(c, cs, sequence) == fitFrom(clear(c), sequence, 1, LastOrder(cs))

\* a denominator without the vocabulary_size of Laplace smoothing
call_unsmoothed(c, v, cs, sequence) ==
  LET context == SliceFrom(sequence, -cs)
  IN  [error |-> "none", sequence |-> context,
       denominator |-> get(c, context, 0)]

\* a __call__ that refuses to answer while the counter is empty
call_guarded(c, v, cs, sequence) ==
  LET context == SliceFrom(sequence, -cs)
  IN  IF c = EmptyCounter
        THEN [error |-> "ModelNotFit", sequence |-> context, denominator |-> 0]
        ELSE [error |-> "none", sequence |-> context,
              denominator |-> get(c, context, 0) + v]

\* __call__(sequence): the truncated context and the smoothed denominator
call(c, v, cs, sequence) ==
  LET context == SliceFrom(sequence, -cs)
  IN  [error |-> "none", sequence |-> context,
       denominator |-> get(c, context, 0) + v]

\* a numerator without the add-one of Laplace smoothing
numerator_unsmoothed(c, context, token) == get(c, Append(context, token), 0)

\* log_probability_distribution(token): the smoothed numerator, read from
\* self.counter when the closure is evaluated
numerator(c, context, token) == get(c, Append(context, token), 0) + 1

\* math.log(numerator / denominator)
log_ratio(num, den) ==
  IF den = 0 THEN "ZeroDivisionError"
  ELSE IF (num > 0 /\ den > 0) \/ (num < 0 /\ den < 0) THEN "none"
  ELSE "ValueError"

log_probability_distribution(c, d, token) ==
  LET num == numerator(c, d.sequence, token)
  IN  [kind |-> "float", token |-> token, numerator |-> num,
       denominator |-> d.denominator, error |-> log_ratio(num, d.denominator)]

\* ---------------------------------------------------------------- actions
Init ==
  \E cfg \in Configurations :
    LET self == init(cfg[1], cfg[2])
    IN  /\ vocabulary_size = self.vocabulary_size
        /\ context_size = self.context_size
        /\ counter = self.counter
        /\ error = self.error
        /\ op = "__init__"
        /\ dist = None
        /\ ret = None
        /\ fits = 0
        /\ trained = <<>>
        /\ asked = <<>>
        /\ snapshot = None
        /\ stale = FALSE

Fit ==
  \E sequence \in FitInputs(vocabulary_size, context_size) :
    /\ counter' = fit(counter, context_size, sequence)
    /\ op' = "fit"
    /\ error' = "none"
    /\ ret' = None
    /\ fits' = IF fits < 2 THEN fits + 1 ELSE fits
    /\ trained' = sequence
    /\ stale' = (dist # None)
    /\ UNCHANGED <<vocabulary_size, context_size, dist, asked, snapshot>>

Query ==
  \E sequence \in QueryInputs(vocabulary_size, context_size) :
    LET r == call(counter, vocabulary_size, context_size, sequence)
        d == [kind |-> "closure", sequence |-> r.sequence,
              denominator |-> r.denominator]
    IN  /\ op' = "__call__"
        /\ error' = r.error
        /\ IF r.error = "none"
             THEN /\ dist' = d
                  /\ ret' = d
                  /\ asked' = sequence
                  /\ snapshot' =
                       [t \in EvalInputs(vocabulary_size, context_size) |->
                          log_probability_distribution(counter, d, t)]
                  /\ stale' = FALSE
             ELSE /\ ret' = None
                  /\ UNCHANGED <<dist, asked, snapshot, stale>>
        /\ UNCHANGED <<vocabulary_size, context_size, counter, fits, trained>>

Eval ==
  /\ dist # None
  /\ \E token \in EvalInputs(vocabulary_size, context_size) :
       LET r == log_probability_distribution(counter, dist, token)
       IN  /\ op' = "log_probability_distribution"
           /\ error' = r.error
           /\ ret' = r
           /\ UNCHANGED <<vocabulary_size, context_size, counter, dist,
                          fits, trained, asked, snapshot, stale>>

Next == Fit \/ Query \/ Eval

Spec == Init /\ [][Next]_vars

\* ------------------------------------------------------------- properties
\* the number of windows of the sequence s that equal x
Occurrences(x, s) ==
  Cardinality({i \in 1..(Len(s) - Len(x) + 1) : SubSeq(s, i, i + Len(x) - 1) = x})

\* the contiguous sub-sequences of s of each length from lo through hi
Windows(s, lo, hi) ==
  {SubSeq(s, p[1], p[1] + p[2] - 1) :
     p \in {q \in (1..Len(s)) \X (lo..hi) : q[1] + q[2] - 1 <= Len(s)}}

\* count(x) of the training sequence: its occurrences, 0 when x is no key
CountOf(x) == IF x \in DOMAIN counter THEN Occurrences(x, trained) ELSE 0

\* the last k tokens of s
Suffix(s, k) == SubSeq(s, Len(s) - k + 1, Len(s))

Min(a, b) == IF a < b THEN a ELSE b

TokensOf(s) == {s[i] : i \in DOMAIN s}

\* the sum over the tokens of V of the smoothed numerators dist uses now
SumOfNumerators(V) ==
  Cardinality(UNION {{<<t, k>> : k \in 1..numerator(counter, dist.sequence, t)} : t \in V})

Fitted == fits > 0
Evaluated == ret.kind = "float"
\* C1: on a fitted model, a distribution evaluated while the table it was
\* created from is still in place gives token t, after a context c no longer
\* than context_size, the ratio (count(c ++ [t]) + 1) / (count(c) +
\* vocabulary_size), and returns its logarithm whenever vocabulary_size is
\* positive; after fitting "abcabcabc" with context_size 1 and vocabulary_size
\* 3, query(["a"])("b") is 4/6; after fitting the empty sequence every query
\* gives every token 1/vocabulary_size.
C1_SmoothedRatio ==
  (Fitted /\ ~stale /\ Evaluated) =>
    /\ Len(asked) <= context_size =>
         /\ ret.numerator = CountOf(Append(asked, ret.token)) + 1
         /\ ret.denominator = CountOf(asked) + vocabulary_size
    /\ trained = <<>> =>
         /\ ret.numerator = 1
         /\ ret.denominator = vocabulary_size
    /\ ( /\ vocabulary_size = AbcExample.vocabulary_size
         /\ context_size = AbcExample.context_size
         /\ trained = AbcExample.fit
         /\ asked = AbcExample.query
         /\ ret.token = AbcExample.token ) =>
         /\ ret.numerator = 4
         /\ ret.denominator = 6
    /\ vocabulary_size > 0 => ret.error = "none"

C1_Witness ==
  /\ Fitted /\ ~stale /\ Evaluated
  /\ vocabulary_size = AbcExample.vocabulary_size
  /\ context_size = AbcExample.context_size
  /\ trained = AbcExample.fit
  /\ asked = AbcExample.query
  /\ ret.token = AbcExample.token
  /\ ret.error = "none"

\* C3: after fit(sequence) with context_size >= 0 the keys of the table are
\* exactly the distinct contiguous sub-sequences of the input of each length
\* from 1 through context_size + 1, each mapped to the number of stride-1
\* windows of the input equal to it; there is no key of length 0, none longer
\* than context_size + 1 and none longer than the input.
C3_TableIsWindowCounts ==
  (Fitted /\ context_size >= 0) =>
    /\ DOMAIN counter = Windows(trained, 1, context_size + 1)
    /\ \A g \in DOMAIN counter :
         /\ counter[g] = Occurrences(g, trained)
         /\ Len(g) >= 1
         /\ Len(g) <= context_size + 1
         /\ Len(g) <= Len(trained)

C3_Witness ==
  /\ Fitted /\ context_size >= 1
  /\ \E g \in DOMAIN counter : Len(g) = context_size + 1 /\ counter[g] >= 2
  /\ \E g \in DOMAIN counter : Len(g) = 1 /\ counter[g] >= 2

\* C5: whatever fit and query calls came before, the table a fit call leaves
\* is the table the same call leaves on a freshly constructed model of the
\* same configuration.
C5_RefitReplaces ==
  Fitted =>
    counter = fit(init(vocabulary_size, context_size).counter, context_size, trained)

C5_Witness ==
  /\ fits = 2 /\ op = "fit" /\ context_size >= 0
  /\ trained # <<>> /\ dist # None

\* C6: every evaluation of a distribution, in any reachable state, uses a
\* smoothed numerator of at least 1 and a smoothed denominator of at least
\* vocabulary_size; a returned value is the logarithm of a ratio above zero,
\* and with a positive vocabulary_size a value is always returned.
C6_NeverZero ==
  /\ dist # None => dist.denominator >= vocabulary_size
  /\ Evaluated =>
       /\ ret.numerator >= 1
       /\ ret.denominator >= vocabulary_size
       /\ ret.error = "none" => (ret.numerator > 0 /\ ret.denominator > 0)
       /\ vocabulary_size > 0 => ret.error = "none"

C6_Witness ==
  /\ Fitted /\ Evaluated /\ vocabulary_size > 0
  /\ trained # <<>> /\ context_size >= 1
  /\ Append(dist.sequence, ret.token) \notin DOMAIN counter
  /\ ret.numerator = 1
\* C2: on a fitted model whose training tokens all come from a vocabulary of
\* exactly vocabulary_size tokens, for every query context, the smoothed
\* numerators summed over the vocabulary equal the smoothed denominator, so
\* the probabilities sum to 1.
C2_SumsToOne ==
  ( /\ Fitted /\ ~stale /\ dist # None
    /\ vocabulary_size >= 1
    /\ TokensOf(trained) \subseteq Vocabulary(vocabulary_size) ) =>
    SumOfNumerators(Vocabulary(vocabulary_size)) = dist.denominator

\* C4: for every context_size >= 0, query conditions only on the last
\* min(len(context), context_size) tokens of its input: the distribution it
\* returns is the one those tokens alone yield, and with context_size = 0 it
\* is the distribution of the empty context.
C4_TrailingContextOnly ==
  (Fitted /\ vocabulary_size > 0 /\ dist # None /\ ~stale /\ context_size >= 0) =>
    LET kept == Suffix(asked, Min(Len(asked), context_size))
        alone == call(counter, vocabulary_size, context_size, kept)
    IN  /\ dist.sequence = kept
        /\ dist.sequence = alone.sequence
        /\ dist.denominator = alone.denominator
        /\ context_size = 0 =>
             dist.denominator = call(counter, vocabulary_size, context_size, <<>>).denominator

C8_InvalidConfigurationRejected ==
  error # "InvalidConfiguration" =>
    /\ vocabulary_size > 0
    /\ context_size >= 0
    /\ dist # None => dist.denominator > 0

\* C9: every evaluation of a retained distribution returns, for every token,
\* the value fixed by the table as it was when query returned the
\* distribution, whatever queries and fit calls came in between.
C9_ClosureOverTableAtQuery ==
  (Evaluated /\ vocabulary_size > 0) => ret = snapshot[ret.token]

\* C10: in the docstring's example (context_size 2, vocabulary_size 28, fitted
\* on the characters of the sentence) model('the quick brown')('f') is the
\* logarithm of 1/28: the smoothed numerator is 1, the smoothed denominator 28.
C10_DocstringExample ==
  ( /\ vocabulary_size = DocExample.vocabulary_size
    /\ context_size = DocExample.context_size
    /\ Fitted /\ trained = DocExample.fit
    /\ ~stale /\ asked = DocExample.query
    /\ Evaluated /\ ret.token = DocExample.token ) =>
    /\ ret.error = "none"
    /\ ret.numerator = 1
    /\ ret.denominator = 28
====
